---- MODULE Spec2Model ----
(***************************************************************************)
(* ScriptHub (scripts/newMain.py): the provisioning and execution pipeline *)
(* of one MainWindow: DependencyManagement (environment creation, install, *)
(* dependency check, package cache), ScriptExecutor with its WorkerThread  *)
(* sessions, and the MainWindow handlers that glue them together.          *)
(*                                                                         *)
(* One foreground thread runs the handlers; each handler is one action.    *)
(* Signals emitted by a QThread's run() are queued to the foreground       *)
(* thread (events) and handled later, in arrival order.  Signals emitted   *)
(* on the foreground thread call their slots at once, inside the action.   *)
(***************************************************************************)
EXTENDS Integers, Sequences, FiniteSets, TLC

\* ------------------------------------------------------------- bounds
\* Execution sessions (WorkerThread objects) ever started.
MaxSessions == 2
\* Environment-creation tasks (VenvCreationThread objects) ever started.
MaxVenvTasks == 2
\* Install tasks (InstallThread objects) ever started.
MaxInstallTasks == 1
\* stdout lines a child process writes that the worker relays.
MaxLines == 1
\* Lines of a requirements.txt handed to check_dependencies.
MaxReqs == 2
\* Package versions are 1..MaxVersion.
MaxVersion == 2
\* Lines of a script.py handed to analyze_imports.
MaxText == 2

\* ------------------------------------------------------------- values
\* The script list, in the order get_all_scripts returns it.
ListOrder == <<"a", "b">>
Scripts == {ListOrder[k] : k \in DOMAIN ListOrder}
NoScript == ""
Pkgs == {"requests"}

\* requirements.txt of every script that has one: package names, one per line.
Manifest(s) == Pkgs

\* ---------------------------------------------- requirement lines
Versions == 1..MaxVersion
\* Package names as a requirements line writes them, and the keys of the
\* snapshot, which get_installed_packages lower-cases.
ReqNames == {"requests", "Flask"}
InstalledNames == {"requests", "flask"}

\* req.name.lower()
name_lower(n) == IF n = "Flask" THEN "flask" ELSE n

\* A version specifier is a conjunction of clauses; <<>> is the empty
\* specifier of a bare package name.
Clauses == [op : {">=", "<", "=="}, ver : Versions]
Specifiers ==
    {<<>>} \cup {<<c>> : c \in Clauses}
           \cup {<<[op |-> ">=", ver |-> 1], [op |-> "<", ver |-> MaxVersion]>>}

\* The lines check_dependencies keeps (not blank, not a comment): a line that
\* Requirement() parses into name and specifier, or one that makes it raise.
ReqLines ==
    [kind : {"req"}, name : ReqNames, spec : Specifiers]
        \cup {[kind |-> "bad", name |-> "", spec |-> <<>>]}

\* The file in the running model: the one line "requests".
Requirements(s) == <<[kind |-> "req", name |-> "requests", spec |-> <<>>]>>

\* The snapshot dictionary of a set of installed packages.
Snapshot(pkgs) == [n \in pkgs |-> 1]

\* ScriptOperations.get_script_dir: os.path.join("scripts", script_name).
get_script_dir(script_name) == "scripts/" \o script_name

\* The script whose directory is script_dir (os.path.basename), NoScript if none.
basename(script_dir) ==
    IF \E s \in Scripts : get_script_dir(s) = script_dir
    THEN CHOOSE s \in Scripts : get_script_dir(s) = script_dir
    ELSE NoScript

\* A dependency thread: is_running is its flag _is_running, fin counts the
\* finished_signal emissions of the thread object, progress is the local
\* variable progress of InstallThread.run.
NoThread == [script |-> NoScript, pc |-> "none", is_running |-> TRUE,
             fin |-> 0, progress |-> 0]

\* QThread.isRunning(): true from start() until run() has returned.
isRunning(pc) == pc \notin {"none", "done"}

\* A queued signal emission: sig names the signal, id the session (0 for the
\* dependency threads), dir and ok the arguments the connected lambda passes on.
Ev(sig, id, dir, ok) == [sig |-> sig, id |-> id, dir |-> dir, ok |-> ok]

Sessions == 1..MaxSessions
NoSession == [script |-> NoScript, pc |-> "none", is_running |-> TRUE,
              process |-> "none", pipe |-> 0, lines |-> 0, fin |-> 0]

\* What the last step did, as seen by the caller: op names the handler when it
\* was a run request, an answer to the install question, a call of the
\* executor or the delivery of a provisioning or install event, and is "other"
\* for every other step; started says that script_started_signal was emitted,
\* info and err are the executor's own output_signal and error_signal
\* emissions of the step. When a worker's run() leaves its read loop, op is
\* "worker_return", id the session, stderr whether the child process had
\* written to stderr, and err what the worker emitted on error_signal. For a
\* step of a dependency thread (op "venv_run", "install_run") emits lists the
\* signals the thread emitted, in order, and ok the outcome of the step;
\* progress lists the percentages the step reported on progress_signal. For
\* the delivery of a finished_signal, diag lists the failure lines its slots
\* wrote to the log. For the delivery of a worker's line (op "worker_line")
\* script is the script of the session that emitted it and log the script
\* whose log log_output appended it to.
NoAct == [op |-> "other", script |-> NoScript, dir |-> "", ok |-> FALSE,
          venv |-> "none", absent |-> FALSE, inflight |-> FALSE, mine |-> FALSE,
          check |-> "none", asked |-> FALSE, install |-> "none",
          launch |-> "none", retry |-> "none", started |-> FALSE,
          info |-> <<>>, err |-> <<>>, id |-> 0, stderr |-> FALSE,
          emits |-> <<>>, progress |-> <<>>, diag |-> <<>>, log |-> NoScript]

VARIABLES
    fsScript,                  \* scripts/<s>/script.py exists
    fsReq,                     \* scripts/<s>/requirements.txt exists
    fsExe,                     \* scripts/<s>/.venv/bin/python exists
    host_packages,             \* what importlib.metadata.distributions() lists
    venv_packages,             \* packages installed in the environment of <s>
    installed_packages_cache,  \* DependencyManagement._installed_packages_cache
    venv_thread,               \* DependencyManagement._venv_thread
    install_thread,            \* DependencyManagement._install_thread
    worker_thread,             \* ScriptExecutor.worker_thread (0 is None)
    sess,                      \* every WorkerThread started so far
    current_script_name,       \* MainWindow.current_script_name
    running_script_name,       \* MainWindow.running_script_name
    running_buttons,           \* ScriptManager run/stop button state
    prompt,                    \* the script a modal install question is open for
    queue,                     \* signal emissions queued to the foreground thread
    act,                       \* what the last step did
    venvStarts,                \* creation tasks started per script
    venvFails,                 \* of those, the ones that reported failure
    installTasks,              \* install tasks ever started
    venvLast,                  \* how the latest creation task of <s> ended
    execFin,                   \* script_finished_signal emissions per session
    requirements,              \* check_dependencies: the lines of a requirements.txt
    installed,                 \* check_dependencies: the snapshot it reads
    missing,                   \* check_dependencies: the list it reports
    result,                    \* check_dependencies: what it returned
    content,                   \* analyze_imports: the lines of a script.py
    imports                    \* analyze_imports: what it returned

vars == <<fsScript, fsReq, fsExe, host_packages, venv_packages,
          installed_packages_cache, venv_thread, install_thread, worker_thread,
          sess, current_script_name, running_script_name, running_buttons,
          prompt, queue, act, venvStarts, venvFails, installTasks, venvLast,
          execFin, requirements, installed, missing, result, content, imports>>

fsVars == <<fsScript, fsReq, fsExe, host_packages, venv_packages>>
depVars == <<installed_packages_cache, venv_thread, install_thread>>
execVars == <<worker_thread, sess, execFin>>
uiVars == <<current_script_name, running_script_name, running_buttons, prompt>>
histVars == <<venvStarts, venvFails, installTasks, venvLast>>
chkVars == <<requirements, installed, missing, result, content, imports>>

\* The foreground thread is inside WorkerThread.stop, sleeping through the
\* grace period or waiting in process.wait(): it handles no request and
\* delivers no queued signal until stop() returns.
ForegroundBlocked == \E i \in Sessions : sess[i].process = "terminating"

NoCache == [valid |-> FALSE, pkgs |-> {}]

\* ------------------------------------------------ DependencyManagement
get_installed_packages_uncached(cache) == [valid |-> TRUE, pkgs |-> host_packages]

\* get_installed_packages: built from the interpreter's own distributions()
\* when the cache is None, returned as cached otherwise.
get_installed_packages(cache) ==
    IF cache.valid THEN cache ELSE [valid |-> TRUE, pkgs |-> host_packages]

\* What distributions() lists changes under the program: pip run for the
\* interpreter the application runs on (as _install_virtualenv does), by the
\* program or from outside.
HostPackagesChange ==
    /\ \E pkgs \in SUBSET Pkgs :
         /\ pkgs # host_packages
         /\ host_packages' = pkgs
    /\ act' = NoAct
    /\ UNCHANGED <<chkVars, fsScript, fsReq, fsExe, venv_packages, depVars, execVars,
                   uiVars, queue, histVars>>

\* The cache after check_dependencies(script_dir): a missing requirements.txt
\* returns before the snapshot is read.
cache_after_check(s, cache) ==
    IF fsReq[s] THEN get_installed_packages(cache) ELSE cache

\* req.specifier.contains(version)
clause_holds(c, v) ==
    IF c.op = ">=" THEN v >= c.ver
    ELSE IF c.op = "<" THEN v < c.ver
    ELSE v = c.ver
contains(spec, v) == \A k \in DOMAIN spec : clause_holds(spec[k], v)

line_entries_absent_only(l, inst) ==
    IF l.kind = "req" /\ name_lower(l.name) \notin DOMAIN inst
    THEN <<[name |-> l.name, required |-> l.spec, detail |-> "none", installed |-> 0]>>
    ELSE <<>>

\* check_dependencies, one turn of its loop: what the line appends to missing.
\* A package that is not in the snapshot appends str(req); a version outside a
\* non-empty specifier appends name, specifier and installed version; a line
\* that does not parse is logged and skipped.
line_entries(l, inst) ==
    IF l.kind # "req" THEN <<>>
    ELSE IF name_lower(l.name) \notin DOMAIN inst
    THEN <<[name |-> l.name, required |-> l.spec, detail |-> "none", installed |-> 0]>>
    ELSE IF l.spec # <<>> /\ ~contains(l.spec, inst[name_lower(l.name)])
    THEN <<[name |-> name_lower(l.name), required |-> l.spec,
            detail |-> "version", installed |-> inst[name_lower(l.name)]]>>
    ELSE <<>>

\* check_dependencies: the missing list after the loop over the lines.
RECURSIVE missing_list(_, _)
missing_list(reqs, inst) ==
    IF reqs = <<>> THEN <<>>
    ELSE missing_list(SubSeq(reqs, 1, Len(reqs) - 1), inst)
            \o line_entries(reqs[Len(reqs)], inst)

\* check_dependencies on a file that exists or not, with these lines, read
\* against this snapshot. (The outer handler, which returns False when the
\* file cannot be read or the snapshot cannot be built, is left out: the file
\* is readable text and distributions() answers.)
check_requirements(exists, reqs, inst) ==
    IF ~exists THEN TRUE ELSE missing_list(reqs, inst) = <<>>

\* check_dependencies(script_dir) in the running model.
check_dependencies(s, cache) ==
    check_requirements(fsReq[s], Requirements(s),
                       Snapshot(get_installed_packages(cache).pkgs))

create_or_get_venv_unguarded(s) ==
    IF fsExe[s] THEN "ready" ELSE "started"

\* create_or_get_venv: "ready" returns python_exec, "busy" and "started"
\* return None; "started" creates and starts a VenvCreationThread.
create_or_get_venv(s) ==
    IF fsExe[s] THEN "ready"
    ELSE IF isRunning(venv_thread.pc) THEN "busy"
    ELSE "started"

install_dependencies_manifest_unchecked(s) ==
    IF isRunning(install_thread.pc) THEN "busy" ELSE "started"

install_dependencies_unguarded(s) ==
    IF ~fsReq[s] THEN "nomanifest" ELSE "started"

\* install_dependencies: "nomanifest" emits dependencies_installed(True) at
\* once, "busy" only logs, "started" creates and starts an InstallThread.
install_dependencies(s) ==
    IF ~fsReq[s] THEN "nomanifest"
    ELSE IF isRunning(install_thread.pc) THEN "busy"
    ELSE "started"


retry_after_install_always(dir, success) == "notfound"

retry_after_install_by_name(dir, success) ==
    IF success /\ basename(dir) = current_script_name THEN "check" ELSE "none"

\* What _on_dependencies_installed(script_name, success) does with the
\* script_dir that dependencies_installed_signal carries as script_name: the
\* retry is taken when it equals current_script_name, and the retried
\* _prepare_and_run_script looks for scripts/<script_name>/script.py.
\* No directory scripts/scripts/<s> exists, so get_script_path finds nothing.
retry_after_install(dir, success) ==
    IF success /\ dir = current_script_name THEN "notfound" ELSE "none"

\* install_dependencies: what it reports on progress_signal.
install_progress(out) == IF out = "nomanifest" THEN <<0>> ELSE <<>>

\* The state after install_dependencies(script_dir, python_exec), with the
\* slots of dependencies_installed_signal that run inside it.
do_install(s) ==
    LET out == install_dependencies(s) IN
    /\ out = "started" => installTasks < MaxInstallTasks
    /\ install_thread' = IF out = "started" THEN [NoThread EXCEPT !.script = s, !.pc = "run"]
                         ELSE install_thread
    /\ installTasks' = IF out = "started" THEN installTasks + 1 ELSE installTasks
    /\ installed_packages_cache' =
           IF out = "nomanifest" THEN NoCache ELSE installed_packages_cache

\* check_dependencies(script_dir) for the selected script, as
\* _on_script_selection_changed_in_ui and
\* _check_and_install_dependencies_then_run call it, on the lines and the
\* snapshot at hand: the list it logs and the value it returns.
CheckDependencies ==
    /\ ~ForegroundBlocked
    /\ result = "none"
    /\ current_script_name # NoScript
    /\ LET s == current_script_name IN
       /\ missing' = IF fsReq[s] THEN missing_list(requirements, installed)
                     ELSE <<>>
       /\ result' = IF check_requirements(fsReq[s], requirements, installed)
                    THEN "True" ELSE "False"
       /\ act' = [NoAct EXCEPT !.op = "check", !.script = s]
    /\ UNCHANGED <<fsVars, depVars, execVars, uiVars, queue, histVars,
                   requirements, installed, content, imports>>

\* --------------------------------------------------- analyze_imports
\* Module names in the order sorted() gives them; '' is what split('.')[0]
\* makes of the '.' of a relative import.
ModuleOrder == <<"", "numpy", "os", "requests">>

\* _get_stdlib_list, as far as these names go.
stdlib == {"os"}

\* The statements a line of a script holds: import with its comma-separated
\* modules (dotted path, with or without "as" alias), from ... import with
\* the dotted path of its module, a comment, any other code, nothing.
Statements ==
    { [kind |-> "import", mods |-> <<[path |-> <<"os">>, alias |-> FALSE]>>],
      [kind |-> "import", mods |-> <<[path |-> <<"requests">>, alias |-> FALSE]>>],
      [kind |-> "import", mods |-> <<[path |-> <<"numpy", "linalg">>, alias |-> TRUE],
                                     [path |-> <<"os", "path">>, alias |-> FALSE]>>],
      [kind |-> "from", mods |-> <<[path |-> <<"requests", "adapters">>, alias |-> FALSE]>>],
      [kind |-> "from", mods |-> <<[path |-> <<"os">>, alias |-> FALSE]>>],
      [kind |-> "from", mods |-> <<[path |-> <<"", "">>, alias |-> FALSE]>>],
      [kind |-> "comment", mods |-> <<>>],
      [kind |-> "code", mods |-> <<>>],
      [kind |-> "blank", mods |-> <<>>] }

\* A line of the file: leading whitespace or none, then the statement.
TextLines == [indent : BOOLEAN, stmt : Statements]

\* line.strip(): the statement without the whitespace around it.
strip(line) == line.stmt

\* The list comprehension over content.split('\n'): the stripped lines that
\* are neither empty nor comments.
is_kept(line) == strip(line).kind \notin {"blank", "comment"}
stripped_lines(text) ==
    LET kept == SelectSeq(text, is_kept) IN
    [k \in DOMAIN kept |-> strip(kept[k])]

\* m.strip().split('.')[0].split(' as ')[0], and parts[1].split('.')[0].
root_module(m) == m.path[1]

\* The names one stripped line adds to imports.
line_imports(stmt) ==
    IF stmt.kind \in {"import", "from"}
    THEN {root_module(stmt.mods[k]) : k \in DOMAIN stmt.mods} \ stdlib
    ELSE {}

\* sorted(imports).
sorted(names) == SelectSeq(ModuleOrder, LAMBDA m : m \in names)

\* Before analyze_imports has returned.
NotAnalyzed == [ret |-> "none", names |-> <<>>]

\* analyze_imports: the sorted external names, None when there are none.
analyze_imports(text) ==
    LET lines == stripped_lines(text)
        found == UNION {line_imports(lines[k]) : k \in DOMAIN lines}
    IN IF found # {} THEN [ret |-> "list", names |-> sorted(found)]
       ELSE [ret |-> "None", names |-> <<>>]

\* analyze_imports(script_path) on the text at hand.
AnalyzeImports ==
    /\ imports = NotAnalyzed
    /\ imports' = analyze_imports(content)
    /\ act' = [NoAct EXCEPT !.op = "analyze"]
    /\ UNCHANGED <<fsVars, depVars, execVars, uiVars, queue, histVars,
                   requirements, installed, missing, result, content>>

\* ------------------------------------------------------ ScriptExecutor
\* run_script: rejected while worker_thread is set and running.
run_script ==
    IF worker_thread # 0 /\ isRunning(sess[worker_thread].pc) THEN "busy"
    ELSE "started"

\* run_script: the notice it emits on output_signal.
run_script_notice(out) ==
    IF out = "busy" THEN <<"already_running">> ELSE <<"launching">>

NextSession == Cardinality({i \in Sessions : sess[i].pc # "none"}) + 1

\* The state after run_script(script_path, script_dir, python_exec, s), with
\* the slot of script_started_signal (_on_script_execution_started).
do_run_script(s) ==
    IF run_script = "started"
    THEN /\ NextSession <= MaxSessions
         /\ sess' = [sess EXCEPT ![NextSession] =
                        [NoSession EXCEPT !.script = s, !.pc = "start"]]
         /\ worker_thread' = NextSession
         /\ running_script_name' = s
         /\ running_buttons' = TRUE
    ELSE UNCHANGED <<sess, worker_thread, running_script_name, running_buttons>>

\* run_script(script_path, script_dir, python_exec, script_name) called for
\* the selected script at any time, whatever the buttons show.
RunScriptCall ==
    /\ ~ForegroundBlocked
    /\ prompt = NoScript
    /\ current_script_name # NoScript
    /\ LET s == current_script_name IN
         /\ act' = [NoAct EXCEPT
                      !.op = "run_script", !.script = s, !.launch = run_script,
                      !.started = run_script = "started",
                      !.info = run_script_notice(run_script)]
         /\ do_run_script(s)
    /\ UNCHANGED <<chkVars, fsVars, depVars, execFin, current_script_name, prompt,
                   queue, histVars>>

stop_script_always == "stopping"

\* stop_script: WorkerThread.stop is called on a set and running worker_thread.
stop_script ==
    IF worker_thread # 0 /\ isRunning(sess[worker_thread].pc) THEN "stopping"
    ELSE "nothing_to_stop"

stop_script_dependency_threads_all == {"venv", "install"}

\* The dependency threads stop_script calls stop() on: it stops the worker
\* thread of the running script and no other.
stop_script_dependency_threads == {}

\* VenvCreationThread.stop and InstallThread.stop clear the flag;
\* InstallThread.stop also kills pip, whose read loop then ends.
thread_stop(thread) ==
    IF isRunning(thread.pc) THEN [thread EXCEPT !.is_running = FALSE] ELSE thread

\* stop_script called by any caller, on the foreground thread.
\* WorkerThread.stop runs inside the call: the flag is cleared and a process
\* that was already spawned is sent terminate. A process found dead by poll()
\* is reaped at once; one that is still alive leaves the caller in
\* QThread.msleep and then in process.wait(), until StopWait.
StopScriptCall ==
    /\ ~ForegroundBlocked
    /\ prompt = NoScript
    /\ IF stop_script = "stopping"
       THEN \E survives \in BOOLEAN :
              sess' = [sess EXCEPT
                ![worker_thread].is_running = FALSE,
                ![worker_thread].process =
                    IF @ = "alive"
                    THEN (IF survives THEN "terminating" ELSE "exited")
                    ELSE @]
       ELSE UNCHANGED sess
    /\ venv_thread' = IF "venv" \in stop_script_dependency_threads
                      THEN thread_stop(venv_thread) ELSE venv_thread
    /\ install_thread' = IF "install" \in stop_script_dependency_threads
                         THEN thread_stop(install_thread) ELSE install_thread
    /\ act' = [NoAct EXCEPT !.op = "stop_script", !.info = <<stop_script>>]
    /\ UNCHANGED <<chkVars, fsVars, installed_packages_cache, worker_thread, execFin,
                   uiVars, queue, histVars>>

\* The rest of WorkerThread.stop for a process that outlived terminate: the
\* grace period has passed, the process is killed if it is still alive, and
\* process.wait() returns; stop_script returns to the event loop.
StopWait ==
    /\ \E i \in Sessions :
         /\ sess[i].process = "terminating"
         /\ sess' = [sess EXCEPT ![i].process = "exited"]
    /\ act' = NoAct
    /\ UNCHANGED <<chkVars, fsVars, depVars, worker_thread, execFin, uiVars, queue, histVars>>

\* The stop button, enabled from script_started_signal to
\* script_finished_signal.
StopClicked ==
    /\ running_buttons
    /\ StopScriptCall

\* Creation tasks started so far, over all scripts.
StartsUpTo[k \in 0..Len(ListOrder)] ==
    IF k = 0 THEN 0 ELSE venvStarts[ListOrder[k]] + StartsUpTo[k - 1]
VenvTasks == StartsUpTo[Len(ListOrder)]

\* ---------------------------------------------------------- MainWindow
check_and_install_then_run_always(dependencies_ok) == "launch"

\* _check_and_install_dependencies_then_run up to the modal question: launch
\* when the check is satisfied, open the question otherwise.
check_and_install_then_run(dependencies_ok) ==
    IF dependencies_ok THEN "launch" ELSE "ask"

\* _prepare_and_run_script: the script file, then create_or_get_venv, then
\* the above when python_exec came back.
prepare_and_run_script(s) ==
    LET venv == create_or_get_venv(s)
        ok == check_dependencies(s, installed_packages_cache)
        ran == fsScript[s] /\ venv = "ready"
        next == IF ran THEN check_and_install_then_run(ok) ELSE "none"
        mine == venv_thread.script = s /\ isRunning(venv_thread.pc)
        inflight == venv_thread.script = s
                      /\ venv_thread.pc \in {"tool", "create", "pip"}
    IN
    /\ act' = [NoAct EXCEPT
                 !.op = "run_request", !.script = s,
                 !.venv = IF fsScript[s] THEN venv ELSE "none",
                 !.absent = fsScript[s] /\ ~fsExe[s],
                 !.inflight = fsScript[s] /\ inflight,
                 !.mine = fsScript[s] /\ mine,
                 !.check = IF ran THEN (IF ok THEN "ok" ELSE "missing") ELSE "none",
                 !.asked = next = "ask",
                 !.launch = IF next = "launch" THEN run_script ELSE "none",
                 !.started = next = "launch" /\ run_script = "started",
                 !.info = IF next = "launch" THEN run_script_notice(run_script)
                          ELSE <<>>]
    /\ installed_packages_cache' =
           IF ran THEN cache_after_check(s, installed_packages_cache)
           ELSE installed_packages_cache
    /\ IF next = "launch"
       THEN do_run_script(s)
       ELSE UNCHANGED <<sess, worker_thread, running_script_name, running_buttons>>
    /\ prompt' = IF next = "ask" THEN s ELSE prompt
    /\ IF fsScript[s] /\ venv = "started"
       THEN /\ VenvTasks < MaxVenvTasks
            /\ venv_thread' = [NoThread EXCEPT !.script = s, !.pc = "tool"]
            /\ venvStarts' = [venvStarts EXCEPT ![s] = @ + 1]
            /\ venvLast' = [venvLast EXCEPT ![s] = "running"]
       ELSE UNCHANGED <<venv_thread, venvStarts, venvLast>>
    /\ UNCHANGED <<chkVars, fsVars, install_thread, execFin, current_script_name, queue,
                   venvFails, installTasks>>

\* The run button: _on_run_button_clicked emits the selected script's name.
RunClicked ==
    /\ ~ForegroundBlocked
    /\ prompt = NoScript
    /\ ~running_buttons
    /\ current_script_name # NoScript
    /\ prepare_and_run_script(current_script_name)

\* The answer to QMessageBox.question in
\* _check_and_install_dependencies_then_run. The question is modal: the
\* foreground thread handles queued signals while it is open, but no click.
AnswerPrompt ==
    /\ ~ForegroundBlocked
    /\ prompt # NoScript
    /\ \E yes \in BOOLEAN :
         /\ act' = [NoAct EXCEPT
                      !.op = IF yes THEN "answer_yes" ELSE "answer_no",
                      !.script = prompt,
                      !.install = IF yes THEN install_dependencies(prompt) ELSE "none",
                      !.progress = IF yes
                                   THEN install_progress(install_dependencies(prompt))
                                   ELSE <<>>]
         /\ IF yes THEN do_install(prompt)
            ELSE UNCHANGED <<install_thread, installTasks, installed_packages_cache>>
    /\ prompt' = NoScript
    /\ UNCHANGED <<chkVars, fsVars, venv_thread, execVars, current_script_name,
                   running_script_name, running_buttons, queue,
                   venvStarts, venvFails, venvLast>>

\* _on_script_selection_changed_in_ui for a listed script.
Select ==
    /\ ~ForegroundBlocked
    /\ prompt = NoScript
    /\ \E s \in Scripts :
         /\ fsScript[s]
         /\ s # current_script_name
         /\ current_script_name' = s
         /\ installed_packages_cache' = cache_after_check(s, installed_packages_cache)
         /\ act' = NoAct
    /\ UNCHANGED <<chkVars, fsVars, venv_thread, install_thread, execVars,
                   running_script_name, running_buttons, prompt, queue, histVars>>


\* _delete_script_handler answered yes: delete_script_folder removes the whole
\* directory; _on_script_deleted_by_operations reloads the list, which selects
\* its first row (_on_script_selection_changed_in_ui of a remaining script).
DeleteScript ==
    /\ ~ForegroundBlocked
    /\ prompt = NoScript
    /\ \E s \in Scripts :
         LET left == {r \in Scripts \ {s} : fsScript[r]}
             sel == IF left = {} THEN NoScript
                    ELSE ListOrder[CHOOSE k \in DOMAIN ListOrder :
                            /\ ListOrder[k] \in left
                            /\ \A j \in 1..(k - 1) : ListOrder[j] \notin left]
         IN
         /\ fsScript[s]
         /\ fsScript' = [fsScript EXCEPT ![s] = FALSE]
         /\ fsReq' = [fsReq EXCEPT ![s] = FALSE]
         /\ fsExe' = [fsExe EXCEPT ![s] = FALSE]
         /\ venv_packages' = [venv_packages EXCEPT ![s] = {}]
         /\ current_script_name' = sel
         /\ installed_packages_cache' =
                IF sel = NoScript THEN installed_packages_cache
                ELSE cache_after_check(sel, installed_packages_cache)
         /\ act' = NoAct
    /\ UNCHANGED <<chkVars, host_packages, venv_thread, install_thread, execVars,
                   running_script_name, running_buttons, prompt, queue, histVars>>

\* A rename from the context menu, accepted by rename_script_folder: the
\* directory of old, with its requirements file and environment, becomes the
\* directory of new. The slots of script_renamed_signal reload the list, which
\* selects its first row and checks that script's dependencies;
\* _on_script_renamed_by_operations moves the cached log text, which is not
\* part of this state, to the new name. running_script_name, the sessions
\* and the dependency threads are not touched.
RenameScript ==
    /\ ~ForegroundBlocked
    /\ prompt = NoScript
    /\ \E old \in Scripts, new \in Scripts :
         LET listed == {r \in Scripts \ {old} : fsScript[r]} \cup {new}
             sel == ListOrder[CHOOSE k \in DOMAIN ListOrder :
                            /\ ListOrder[k] \in listed
                            /\ \A j \in 1..(k - 1) : ListOrder[j] \notin listed]
         IN
         /\ old # new
         /\ fsScript[old] /\ ~fsScript[new]
         /\ fsScript' = [fsScript EXCEPT ![old] = FALSE, ![new] = TRUE]
         /\ fsReq' = [fsReq EXCEPT ![old] = FALSE, ![new] = fsReq[old]]
         /\ fsExe' = [fsExe EXCEPT ![old] = FALSE, ![new] = fsExe[old]]
         /\ venv_packages' = [venv_packages EXCEPT ![old] = {},
                                                   ![new] = venv_packages[old]]
         /\ current_script_name' = sel
         /\ installed_packages_cache' =
                IF fsReq'[sel] THEN get_installed_packages(installed_packages_cache)
                ELSE installed_packages_cache
         /\ act' = [NoAct EXCEPT !.op = "rename", !.script = old, !.dir = new]
    /\ UNCHANGED <<chkVars, host_packages, venv_thread, install_thread, execVars,
                   running_script_name, running_buttons, prompt, queue, histVars>>

\* ------------------------------------------------- VenvCreationThread
thread_finished_never == <<>>

\* One emission of finished_signal by a dependency thread.
thread_finished == <<"finished">>

\* The queued finished_signal events of such an emission.
FinishedEvents(sig, dir, ok) ==
    [k \in 1..Len(thread_finished) |-> Ev(sig, 0, dir, ok)]

venv_step_after_continue(step, ok) ==
    CASE step = "tool" -> "create"
      [] step = "create" -> "pip"
      [] OTHER -> "emitted"

\* run(): where the thread stands after a step: a failed step emits
\* finished_signal(False, ...) and returns, a successful one goes on to the
\* next, and the last to the emission of finished_signal(True, python_exec).
venv_step_after(step, ok) ==
    IF ~ok THEN "emitted" ELSE venv_step_after_continue(step, ok)

\* run(): progress 10, then _check_virtualenv_installed and, when virtualenv is
\* not there, _install_virtualenv followed by progress 30. A failed install,
\* like an exception raised on the way, emits finished_signal(False, ...).
VenvTool ==
    /\ venv_thread.pc = "tool"
    /\ \E outcome \in {"present", "installed", "failed"} :
         IF outcome # "failed"
         THEN /\ venv_thread' = [venv_thread EXCEPT !.pc = venv_step_after("tool", TRUE)]
              /\ act' = [NoAct EXCEPT
                    !.op = "venv_run", !.script = venv_thread.script, !.ok = TRUE,
                    !.emits = IF outcome = "present" THEN <<"output", "progress">>
                              ELSE <<"output", "progress", "output", "progress">>,
                    !.progress = IF outcome = "present" THEN <<10>> ELSE <<10, 30>>]
              /\ UNCHANGED <<queue, venvFails, venvLast>>
         ELSE /\ venv_thread' = [venv_thread EXCEPT
                    !.pc = venv_step_after("tool", FALSE),
                    !.fin = @ + Len(thread_finished)]
              /\ queue' = queue \o FinishedEvents("venv_finished",
                                       get_script_dir(venv_thread.script), FALSE)
              /\ act' = [NoAct EXCEPT
                    !.op = "venv_run", !.script = venv_thread.script, !.ok = FALSE,
                    !.emits = <<"output", "progress", "output">> \o thread_finished,
                    !.progress = <<10>>]
              /\ venvFails' = [venvFails EXCEPT ![venv_thread.script] = @ + 1]
              /\ venvLast' = [venvLast EXCEPT ![venv_thread.script] = "tool"]
    /\ UNCHANGED <<chkVars, fsVars, installed_packages_cache, install_thread, execVars,
                   uiVars, venvStarts, installTasks>>

\* run(): _create_virtualenv; exit code 0 leaves the interpreter on disk and
\* is followed by progress 80.
VenvCreate ==
    /\ venv_thread.pc = "create"
    /\ \E ok \in BOOLEAN :
         IF ok
         THEN /\ venv_thread' = [venv_thread EXCEPT !.pc = venv_step_after("create", TRUE)]
              /\ fsExe' = [fsExe EXCEPT ![venv_thread.script] = TRUE]
              /\ act' = [NoAct EXCEPT
                    !.op = "venv_run", !.script = venv_thread.script, !.ok = TRUE,
                    !.emits = <<"output", "progress">>, !.progress = <<80>>]
              /\ UNCHANGED <<queue, venvFails, venvLast>>
         ELSE /\ venv_thread' = [venv_thread EXCEPT
                    !.pc = venv_step_after("create", FALSE),
                    !.fin = @ + Len(thread_finished)]
              /\ queue' = queue \o FinishedEvents("venv_finished",
                                       get_script_dir(venv_thread.script), FALSE)
              /\ act' = [NoAct EXCEPT
                    !.op = "venv_run", !.script = venv_thread.script, !.ok = FALSE,
                    !.emits = <<"output">> \o thread_finished]
              /\ venvFails' = [venvFails EXCEPT ![venv_thread.script] = @ + 1]
              /\ venvLast' = [venvLast EXCEPT ![venv_thread.script] = "create"]
              /\ UNCHANGED fsExe
    /\ UNCHANGED <<chkVars, fsScript, fsReq, host_packages, venv_packages,
                   installed_packages_cache, install_thread, execVars, uiVars,
                   venvStarts, installTasks>>

\* run(): _check_pip_installed, then progress 100 and
\* finished_signal(True, python_exec), or finished_signal(False, ...).
VenvPip ==
    /\ venv_thread.pc = "pip"
    /\ \E ok \in BOOLEAN :
         /\ venv_thread' = [venv_thread EXCEPT
               !.pc = venv_step_after("pip", ok), !.fin = @ + Len(thread_finished)]
         /\ queue' = queue \o FinishedEvents("venv_finished",
                                  get_script_dir(venv_thread.script), ok)
         /\ act' = [NoAct EXCEPT
               !.op = "venv_run", !.script = venv_thread.script, !.ok = ok,
               !.emits = (IF ok THEN <<"progress", "output">> ELSE <<>>)
                             \o thread_finished,
               !.progress = IF ok THEN <<100>> ELSE <<>>]
         /\ venvFails' = IF ok THEN venvFails
                         ELSE [venvFails EXCEPT ![venv_thread.script] = @ + 1]
         /\ venvLast' = [venvLast EXCEPT ![venv_thread.script] =
                             IF ok THEN "ok" ELSE "pip"]
    /\ UNCHANGED <<chkVars, fsVars, installed_packages_cache, install_thread, execVars,
                   uiVars, venvStarts, installTasks>>

\* run() returns: the thread is no longer running.
VenvEnd ==
    /\ venv_thread.pc = "emitted"
    /\ venv_thread' = [venv_thread EXCEPT !.pc = "done"]
    /\ act' = NoAct
    /\ UNCHANGED <<chkVars, fsVars, installed_packages_cache, install_thread, execVars,
                   uiVars, queue, histVars>>

on_venv_creation_finished_always(success) == "created"

\* _on_venv_creation_finished: success emits venv_created_signal, failure
\* only logs.
on_venv_creation_finished(success) == IF success THEN "created" ELSE "none"

\* _on_venv_creation_finished: the failure line it logs.
on_venv_creation_finished_log(success) ==
    IF success THEN <<>> ELSE <<"venv_creation_error">>

\* The delivery of a creation task's finished_signal: the above, and on
\* venv_created_signal its slot _on_venv_created, which calls
\* install_dependencies.
DeliverVenvFinished ==
    /\ ~ForegroundBlocked
    /\ queue # <<>>
    /\ Head(queue).sig = "venv_finished"
    /\ LET e == Head(queue)
           s == basename(e.dir)
           created == on_venv_creation_finished(e.ok) = "created"
       IN
       /\ act' = [NoAct EXCEPT
                    !.op = "venv_finished", !.script = s, !.dir = e.dir, !.ok = e.ok,
                    !.install = IF created THEN install_dependencies(s) ELSE "none",
                    !.progress = (IF created
                                  THEN install_progress(install_dependencies(s))
                                  ELSE <<>>) \o <<0>>,
                    !.diag = on_venv_creation_finished_log(e.ok)]
       /\ IF created THEN do_install(s)
          ELSE UNCHANGED <<install_thread, installTasks, installed_packages_cache>>
    /\ queue' = Tail(queue)
    /\ UNCHANGED <<chkVars, fsVars, venv_thread, execVars, uiVars, venvStarts, venvFails,
                   venvLast>>

\* ------------------------------------------------------- InstallThread
next_progress_uncapped(progress) == progress + 3

\* run(): the value the read loop gives progress for one more stdout line.
next_progress(progress) == IF progress + 3 < 95 THEN progress + 3 ELSE 95

\* run(): one turn of the loop over the stdout lines of pip install -r: the
\* line is relayed on output_signal and the new progress is reported; with
\* the flag cleared, pip is killed and finished_signal(False) emitted.
InstallLine ==
    /\ install_thread.pc = "run"
    /\ IF install_thread.is_running
       THEN /\ install_thread' = [install_thread EXCEPT !.progress = next_progress(@)]
            /\ act' = [NoAct EXCEPT
                  !.op = "install_run", !.script = install_thread.script, !.ok = TRUE,
                  !.emits = <<"output", "progress">>,
                  !.progress = <<next_progress(install_thread.progress)>>]
            /\ UNCHANGED queue
       ELSE /\ install_thread' = [install_thread EXCEPT
                  !.pc = "emitted", !.fin = @ + Len(thread_finished)]
            /\ queue' = queue \o FinishedEvents("install_finished",
                                     get_script_dir(install_thread.script), FALSE)
            /\ act' = [NoAct EXCEPT
                  !.op = "install_run", !.script = install_thread.script, !.ok = FALSE,
                  !.emits = <<"output">> \o thread_finished]
    /\ UNCHANGED <<chkVars, fsVars, installed_packages_cache, venv_thread, execVars,
                   uiVars, histVars>>

\* run(): stdout is exhausted; process.wait(), then progress 100 and
\* finished_signal(True) for return code 0, finished_signal(False) otherwise
\* and for an exception raised anywhere in run().
InstallRun ==
    /\ install_thread.pc = "run"
    /\ \E ok \in BOOLEAN :
         /\ install_thread' = [install_thread EXCEPT
               !.pc = "emitted", !.fin = @ + Len(thread_finished)]
         /\ queue' = queue \o FinishedEvents("install_finished",
                                  get_script_dir(install_thread.script), ok)
         /\ venv_packages' =
                IF ok THEN [venv_packages EXCEPT ![install_thread.script] =
                               @ \cup Manifest(install_thread.script)]
                ELSE venv_packages
         /\ act' = [NoAct EXCEPT
               !.op = "install_run", !.script = install_thread.script, !.ok = ok,
               !.emits = (IF ok THEN <<"progress", "output">> ELSE <<"output">>)
                             \o thread_finished,
               !.progress = IF ok THEN <<100>> ELSE <<>>]
    /\ UNCHANGED <<chkVars, fsScript, fsReq, fsExe, host_packages, installed_packages_cache,
                   venv_thread, execVars, uiVars, histVars>>

InstallEnd ==
    /\ install_thread.pc = "emitted"
    /\ install_thread' = [install_thread EXCEPT !.pc = "done"]
    /\ act' = NoAct
    /\ UNCHANGED <<chkVars, fsVars, installed_packages_cache, venv_thread, execVars,
                   uiVars, queue, histVars>>

\* _on_install_finished: the failure line it logs.
on_install_finished_log(success) ==
    IF success THEN <<>> ELSE <<"install_finished_with_errors">>

\* _on_dependencies_installed: the failure line it logs.
on_dependencies_installed_log(success) ==
    IF success THEN <<>> ELSE <<"install_failed_for_script">>

\* _on_install_finished, then the slot of dependencies_installed_signal,
\* _on_dependencies_installed(script_dir, success).
DeliverInstallFinished ==
    /\ ~ForegroundBlocked
    /\ queue # <<>>
    /\ Head(queue).sig = "install_finished"
    /\ LET e == Head(queue) IN
       act' = [NoAct EXCEPT
                 !.op = "install_finished", !.script = basename(e.dir),
                 !.dir = e.dir, !.ok = e.ok,
                 !.retry = retry_after_install(e.dir, e.ok),
                 !.progress = <<0>>,
                 !.diag = on_install_finished_log(e.ok)
                              \o on_dependencies_installed_log(e.ok)]
    /\ installed_packages_cache' = NoCache
    /\ queue' = Tail(queue)
    /\ UNCHANGED <<chkVars, fsVars, venv_thread, install_thread, execVars, uiVars, histVars>>


\* -------------------------------------------------------- WorkerThread
finally_emit_nothing(i) == <<>>

\* run(): the finally clause emits finished_signal on every way out.
finally_emit(i) == <<Ev("worker_finished", i, sess[i].script, TRUE)>>

run_events_finally_first(diag, fin) == fin \o diag

\* run(): what one way out of run() emits, in order: the signals of the try
\* and except blocks, then the signal of the finally clause.
run_events(diag, fin) == diag \o fin

script_missing_never(s) == FALSE

\* run(): not os.path.exists(self.script_path).
script_missing(s) == ~fsScript[s]

\* run(): the script file is looked for and the child process spawned. A
\* missing file, and a Popen that raises, emit error_signal and leave through
\* finally.
WorkerSpawn ==
    /\ \E i \in Sessions, raised \in BOOLEAN :
         LET diag == <<Ev("worker_error", i, sess[i].script, FALSE)>> IN
         /\ sess[i].pc = "start"
         /\ IF ~script_missing(sess[i].script) /\ ~raised
            THEN /\ sess' = [sess EXCEPT ![i].pc = "loop", ![i].process = "alive"]
                 /\ act' = NoAct
                 /\ UNCHANGED queue
            ELSE /\ sess' = [sess EXCEPT ![i].pc = "emitted",
                                          ![i].fin = @ + Len(finally_emit(i))]
                 /\ queue' = queue \o run_events(diag, finally_emit(i))
                 /\ act' = [NoAct EXCEPT !.op = "worker_return", !.id = i,
                                         !.script = sess[i].script, !.err = diag]
    /\ UNCHANGED <<chkVars, fsVars, depVars, worker_thread, execFin, uiVars, histVars>>

\* The child process writes one more line to its stdout pipe, where it waits
\* for the read loop.
ProcessWrite ==
    /\ \E i \in Sessions :
         /\ sess[i].process = "alive"
         /\ sess[i].pipe + sess[i].lines < MaxLines
         /\ sess' = [sess EXCEPT ![i].pipe = @ + 1]
    /\ act' = NoAct
    /\ UNCHANGED <<chkVars, fsVars, depVars, worker_thread, execFin, uiVars, queue, histVars>>

\* run(): one turn of the read loop, entered while the flag is set and poll()
\* finds the process alive: readline takes the next line, one that waits in
\* the pipe or one that the process writes while readline blocks, and it is
\* relayed on output_signal.
WorkerRead ==
    /\ \E i \in Sessions :
         /\ sess[i].pc = "loop"
         /\ sess[i].is_running
         /\ sess[i].process = "alive"
         /\ sess[i].pipe > 0 \/ sess[i].lines < MaxLines
         /\ sess' = [sess EXCEPT ![i].pipe = IF @ > 0 THEN @ - 1 ELSE 0,
                                  ![i].lines = @ + 1]
         /\ queue' = Append(queue, Ev("worker_output", i, sess[i].script, TRUE))
    /\ act' = NoAct
    /\ UNCHANGED <<chkVars, fsVars, depVars, worker_thread, execFin, uiVars, histVars>>

\* The child process exits by itself.
ProcessExit ==
    /\ \E i \in Sessions :
         /\ sess[i].process = "alive"
         /\ sess' = [sess EXCEPT ![i].process = "exited"]
    /\ act' = NoAct
    /\ UNCHANGED <<chkVars, fsVars, depVars, worker_thread, execFin, uiVars, queue, histVars>>

\* run(): the loop is left because the flag was cleared or the process ended;
\* a cleared flag returns at once, otherwise communicate() collects stderr,
\* which is emitted when there is any, and what is left of stdout, which is
\* not used: the lines still in the pipe stay unread. finally emits
\* finished_signal.
WorkerFinish ==
    /\ \E i \in Sessions, stderr \in BOOLEAN :
         LET diag == IF sess[i].is_running /\ stderr
                     THEN <<Ev("worker_error", i, sess[i].script, FALSE)>>
                     ELSE <<>>
         IN
         /\ sess[i].pc = "loop"
         /\ ~sess[i].is_running \/ sess[i].process = "exited"
         /\ sess' = [sess EXCEPT ![i].pc = "emitted",
                                  ![i].fin = @ + Len(finally_emit(i))]
         /\ queue' = queue \o run_events(diag, finally_emit(i))
         /\ act' = [NoAct EXCEPT !.op = "worker_return", !.id = i,
                                 !.script = sess[i].script, !.stderr = stderr,
                                 !.err = diag]
    /\ UNCHANGED <<chkVars, fsVars, depVars, worker_thread, execFin, uiVars, histVars>>

\* run() returns: the thread is no longer running.
WorkerEnd ==
    /\ \E i \in Sessions :
         /\ sess[i].pc = "emitted"
         /\ sess' = [sess EXCEPT ![i].pc = "done"]
    /\ act' = NoAct
    /\ UNCHANGED <<chkVars, fsVars, depVars, worker_thread, execFin, uiVars, queue, histVars>>

\* log_output(text): the script whose cached log and script_log.txt the text
\* is appended to; with no script selected it goes to the console only.
log_output == current_script_name

\* output_signal and error_signal of a worker reach log_output.
DeliverWorkerLine ==
    /\ ~ForegroundBlocked
    /\ queue # <<>>
    /\ Head(queue).sig \in {"worker_output", "worker_error"}
    /\ queue' = Tail(queue)
    /\ act' = [NoAct EXCEPT !.op = "worker_line",
                            !.script = sess[Head(queue).id].script,
                            !.log = log_output]
    /\ UNCHANGED <<chkVars, fsVars, depVars, execVars, uiVars, histVars>>

on_script_execution_finished_keep(name) == name

\* _on_script_execution_finished(script_name): the new running_script_name.
on_script_execution_finished(name) == NoScript

\* _on_script_finished(script_name), with the slot of script_finished_signal
\* (_on_script_execution_finished).
DeliverWorkerFinished ==
    /\ ~ForegroundBlocked
    /\ queue # <<>>
    /\ Head(queue).sig = "worker_finished"
    /\ execFin' = [execFin EXCEPT ![Head(queue).id] = @ + 1]
    /\ running_script_name' = on_script_execution_finished(running_script_name)
    /\ running_buttons' = FALSE
    /\ worker_thread' = 0
    /\ queue' = Tail(queue)
    /\ act' = NoAct
    /\ UNCHANGED <<chkVars, fsVars, depVars, sess, current_script_name, prompt, histVars>>

\* ------------------------------------------------------- specification
\* The window after __init__: the listed scripts exist, with or without a
\* requirements file and an environment; the first row is selected, which
\* ran check_dependencies for it.
InitWindow ==
    /\ fsScript = [s \in Scripts |-> TRUE]
    /\ fsReq \in [Scripts -> BOOLEAN]
    /\ fsExe \in [Scripts -> BOOLEAN]
    /\ host_packages \in SUBSET Pkgs
    /\ venv_packages = [s \in Scripts |-> {}]
    /\ installed_packages_cache =
           IF fsReq[ListOrder[1]] THEN [valid |-> TRUE, pkgs |-> host_packages]
           ELSE NoCache
    /\ venv_thread = NoThread
    /\ install_thread = NoThread
    /\ worker_thread = 0
    /\ sess = [i \in Sessions |-> NoSession]
    /\ current_script_name = ListOrder[1]
    /\ running_script_name = NoScript
    /\ running_buttons = FALSE
    /\ prompt = NoScript
    /\ queue = <<>>
    /\ act = NoAct
    /\ venvStarts = [s \in Scripts |-> 0]
    /\ venvFails = [s \in Scripts |-> 0]
    /\ installTasks = 0
    /\ venvLast = [s \in Scripts |-> "none"]
    /\ execFin = [i \in Sessions |-> 0]

Init ==
    /\ InitWindow
    /\ requirements = <<>>
    /\ installed = Snapshot({})
    /\ missing = <<>>
    /\ result = "none"
    /\ content = <<>>
    /\ imports = NotAnalyzed

\* The execution pipeline: what a window does whose scripts all have their
\* environment and no requirements file. No question is asked and no
\* dependency thread is started from these states, so this is the whole
\* program started there, run with child processes whose every line is read
\* while they are alive (as in NextExecutor).
InitExec ==
    /\ Init
    /\ host_packages = {}
    /\ \A s \in Scripts : fsExe[s] /\ ~fsReq[s]

NextExec ==
    \/ RunClicked
    \/ StopClicked
    \/ StopWait
    \/ Select
    \/ DeleteScript
    \/ RenameScript
    \/ WorkerSpawn
    \/ WorkerRead
    \/ ProcessExit
    \/ WorkerFinish
    \/ WorkerEnd
    \/ DeliverWorkerLine
    \/ DeliverWorkerFinished

SpecExec == InitExec /\ [][NextExec]_vars

\* ScriptExecutor by itself: run_script and stop_script called in any order
\* and at any time, the worker threads, and the delivery of their signals.
NextExecutor ==
    \/ RunScriptCall
    \/ StopScriptCall
    \/ StopWait
    \/ WorkerSpawn
    \/ WorkerRead
    \/ ProcessExit
    \/ WorkerFinish
    \/ WorkerEnd
    \/ DeliverWorkerLine
    \/ DeliverWorkerFinished

SpecExecutor == InitExec /\ [][NextExecutor]_vars

\* Sessions that nobody stops, with child processes that write to stdout at
\* their own pace: run_script called at any time, scripts deleted at any
\* time, the worker threads and the delivery of their signals.
NextSessions ==
    \/ RunScriptCall
    \/ DeleteScript
    \/ WorkerSpawn
    \/ ProcessWrite
    \/ WorkerRead
    \/ ProcessExit
    \/ WorkerFinish
    \/ WorkerEnd
    \/ DeliverWorkerLine
    \/ DeliverWorkerFinished

SpecSessions == InitExec /\ [][NextSessions]_vars

\* The provisioning pipeline: run requests, the install question, selection
\* changes, the two dependency threads and the delivery of their events, up
\* to the launch of a script.
NextDeps ==
    \/ RunClicked
    \/ AnswerPrompt
    \/ Select
    \/ VenvTool
    \/ VenvCreate
    \/ VenvPip
    \/ VenvEnd
    \/ DeliverVenvFinished
    \/ InstallRun
    \/ InstallEnd
    \/ DeliverInstallFinished

SpecDeps == Init /\ [][NextDeps]_vars

\* check_dependencies by itself: the selected script's requirements.txt, when
\* there is one, holds any lines and the snapshot any packages.
InitCheck ==
    /\ InitWindow
    /\ host_packages = {}
    /\ \A s \in Scripts : fsExe[s] /\ (s # ListOrder[1] => ~fsReq[s])
    /\ requirements \in UNION {[1..n -> ReqLines] : n \in 0..MaxReqs}
    /\ installed \in UNION {[D -> Versions] : D \in SUBSET InstalledNames}
    /\ missing = <<>>
    /\ result = "none"
    /\ content = <<>>
    /\ imports = NotAnalyzed

NextCheck == CheckDependencies

SpecCheck == InitCheck /\ [][NextCheck]_vars

\* The package snapshot: scripts that have their environment, the checks of
\* selection changes and run requests, installs, and the host interpreter's
\* packages changing at any time.
InitCache ==
    /\ Init
    /\ \A s \in Scripts : fsExe[s]

NextCache ==
    \/ RunClicked
    \/ AnswerPrompt
    \/ Select
    \/ InstallRun
    \/ InstallEnd
    \/ DeliverInstallFinished
    \/ HostPackagesChange

SpecCache == InitCache /\ [][NextCache]_vars

\* The window's run and stop buttons with the executor behind them: run
\* requests for scripts that have their environment and no requirements
\* file, stop, the worker threads and the delivery of their signals.
NextWindow ==
    \/ RunClicked
    \/ StopClicked
    \/ StopWait
    \/ WorkerSpawn
    \/ WorkerRead
    \/ ProcessExit
    \/ WorkerFinish
    \/ WorkerEnd
    \/ DeliverWorkerLine
    \/ DeliverWorkerFinished

SpecWindow == InitExec /\ [][NextWindow]_vars

\* analyze_imports by itself, on any text of up to MaxText lines.
InitAnalyze ==
    /\ InitWindow
    /\ host_packages = {}
    /\ \A s \in Scripts : fsExe[s] /\ ~fsReq[s]
    /\ requirements = <<>>
    /\ installed = Snapshot({})
    /\ missing = <<>>
    /\ result = "none"
    /\ content \in UNION {[1..n -> TextLines] : n \in 0..MaxText}
    /\ imports = NotAnalyzed

NextAnalyze == AnalyzeImports

SpecAnalyze == InitAnalyze /\ [][NextAnalyze]_vars

\* The dependency threads of the first row's script, step by step, with the
\* stdout lines of pip: the run button, the question, both threads and the
\* delivery of their signals.
InitTasks ==
    /\ Init
    /\ \A s \in Scripts \ {ListOrder[1]} : ~fsReq[s] /\ ~fsExe[s]

NextTasks ==
    \/ RunClicked
    \/ AnswerPrompt
    \/ VenvTool
    \/ VenvCreate
    \/ VenvPip
    \/ VenvEnd
    \/ DeliverVenvFinished
    \/ InstallLine
    \/ InstallRun
    \/ InstallEnd
    \/ DeliverInstallFinished

\* A started thread is scheduled, and each subprocess it waits for ends:
\* every step of run() that stays possible is eventually taken. Nothing is
\* assumed about how many lines pip prints before it exits.
SpecTasks ==
    /\ InitTasks /\ [][NextTasks]_vars
    /\ WF_vars(VenvTool) /\ WF_vars(VenvCreate) /\ WF_vars(VenvPip)
    /\ WF_vars(InstallRun)

\* The run requests of the first row's script to their end: the same without
\* the single stdout lines of pip, and with the foreground thread's event
\* loop, where a queued finished_signal is eventually delivered to its slot.
\* Nothing is assumed about the caller's clicks and answers.
NextRun ==
    \/ RunClicked
    \/ AnswerPrompt
    \/ VenvTool
    \/ VenvCreate
    \/ VenvPip
    \/ VenvEnd
    \/ DeliverVenvFinished
    \/ InstallRun
    \/ InstallEnd
    \/ DeliverInstallFinished

SpecRun ==
    /\ InitTasks /\ [][NextRun]_vars
    /\ WF_vars(VenvTool) /\ WF_vars(VenvCreate) /\ WF_vars(VenvPip)
    /\ WF_vars(InstallRun)
    /\ WF_vars(DeliverVenvFinished) /\ WF_vars(DeliverInstallFinished)

\* The dependency threads of the first row's script, with stop_script called
\* at any time.
NextCancel ==
    \/ RunClicked
    \/ AnswerPrompt
    \/ StopScriptCall
    \/ VenvTool
    \/ VenvCreate
    \/ VenvPip
    \/ VenvEnd
    \/ DeliverVenvFinished
    \/ InstallLine
    \/ InstallRun
    \/ InstallEnd
    \/ DeliverInstallFinished

SpecCancel == InitTasks /\ [][NextCancel]_vars

Next ==
    \/ NextExec
    \/ NextDeps
    \/ InstallLine
    \/ ProcessWrite
    \/ CheckDependencies
    \/ AnalyzeImports
    \/ HostPackagesChange

Spec == Init /\ [][Next]_vars


\* ---------------------------------------------------------------- claims
\* A session is live until it has emitted finished and its child process has
\* ended.
SessionLive(i) ==
    sess[i].pc \in {"start", "loop"} \/ sess[i].process \in {"alive", "terminating"}

\* C1: at most one execution session (worker thread with its child process)
\* started by the executor is live at a time.
C1_SingleLiveSession == Cardinality({i \in Sessions : SessionLive(i)}) <= 1

\* finished events of session i still queued.
QueuedFinished(i) ==
    Cardinality({k \in DOMAIN queue :
                    queue[k].sig = "worker_finished" /\ queue[k].id = i})

\* C2: every session emits exactly one finished notification, whatever its
\* outcome: none before run() leaves, one from then on, and that one is
\* either still queued or was handled exactly once by _on_script_finished.
C2_ExactlyOneFinished ==
    \A i \in Sessions :
        /\ sess[i].fin = (IF sess[i].pc \in {"emitted", "done"} THEN 1 ELSE 0)
        /\ QueuedFinished(i) + execFin[i] = sess[i].fin

\* A stopped session whose run() has returned and whose finished event was handled.
C2_Witness ==
    \E i \in Sessions :
        sess[i].pc = "done" /\ ~sess[i].is_running /\ sess[i].process = "exited"
            /\ execFin[i] = 1

\* C3: a successful install event for the selected script makes the Controller
\* run the dependency check for it again.
C3_RecheckAfterInstall ==
    (act.op = "install_finished" /\ act.ok /\ act.script = current_script_name)
        => act.check # "none"

\* C4: a successful provisioning event for the selected script resumes the run
\* with the dependency check, before any install is started.
C4_CheckAfterProvisioning ==
    (act.op = "venv_finished" /\ act.ok /\ act.script = current_script_name)
        => (act.check # "none" /\ act.install = "none")

\* C5: an install task is started only by a yes to the install question, which
\* is asked only after a dependency check came back unsatisfied.
C5_InstallOnlyAfterYes == act.install = "started" => act.op = "answer_yes"

\* C6: a provisioning or install event for a script that is not the selected
\* one starts no install, runs no dependency check and launches nothing.
C6_StaleEventDiscarded ==
    (act.op \in {"venv_finished", "install_finished"}
        /\ act.script # current_script_name)
        => (act.install # "started" /\ act.check = "none" /\ act.launch = "none")

\* C7: a session is started only by a run request step in which the script's
\* environment exists and its dependency check is satisfied; no answer to the
\* install question and no provisioning or install event starts one.
C7_LaunchOnlyWhenReadyAndSatisfied ==
    [][\A i \in Sessions :
          (sess[i].pc = "none" /\ sess'[i].pc # "none") =>
              /\ fsExe[sess'[i].script]
              /\ check_dependencies(sess'[i].script, installed_packages_cache)
              /\ act'.op = "run_request"
              /\ act'.script = sess'[i].script
              /\ act'.venv = "ready"
              /\ act'.check = "ok"]_vars

\* A script with a requirements file was launched.
C7_Witness ==
    act.op = "run_request" /\ act.launch = "started" /\ fsReq[act.script]
        /\ \E i \in Sessions : sess[i].script = act.script /\ sess[i].pc = "start"

\* C8 as stated: at most one creation task is ever started for a script.
C8_AtMostOneCreation == \A s \in Scripts : venvStarts[s] <= 1

\* C8 as amended: a further creation task is started for a script only after
\* the previous one for it has reported failure.
C8_RetryOnlyAfterFailure == \A s \in Scripts : venvStarts[s] <= venvFails[s] + 1

\* A second creation task runs for a script whose first one failed.
C8_Witness ==
    \E s \in Scripts :
        venvStarts[s] = 2 /\ venvFails[s] = 1 /\ venv_thread.script = s
            /\ venv_thread.pc = "tool"

\* C9: while a creation task for a script is between its start and its
\* terminal event, create_or_get_venv for it returns Pending.
C9_PendingWhileCreating ==
    (act.op = "run_request" /\ act.inflight) => act.venv = "busy"

\* C10: create_or_get_venv for a script without environment and without a
\* creation task of its own launches one, whatever runs for other scripts.
C10_AbsentStartsCreation ==
    (act.op = "run_request" /\ act.absent /\ ~act.mine) => act.venv = "started"

\* C11: after the latest creation task of a script ended in failure, whatever
\* the cause, create_or_get_venv does not report its environment as Ready.
C11_FailedNotReady ==
    (act.op = "run_request" /\ venvLast[act.script] \in {"tool", "create", "pip"})
        => act.venv # "ready"

\* C12: the failure event of a creation task aborts the run request that
\* started it: its handler runs no dependency check, starts no install and
\* launches nothing, and a creation task is started only by a run request.
C12_FailedProvisioningAborts ==
    [][/\ (act'.op = "venv_finished" /\ ~act'.ok) =>
             /\ act'.check = "none" /\ act'.install = "none" /\ act'.launch = "none"
             /\ UNCHANGED <<sess, worker_thread, install_thread, installTasks,
                            venv_thread, venvStarts, prompt>>
       /\ (venvStarts' # venvStarts) => act'.op = "run_request"]_vars

\* The failure event of a task that could not install the creation tool was
\* handled, and no further task was started for the script.
C12_Witness ==
    /\ act.op = "venv_finished" /\ ~act.ok
    /\ venvLast[act.script] = "tool"
    /\ venvStarts[act.script] = 1
    /\ ~isRunning(install_thread.pc)

\* C13: while an install task is in flight, install_dependencies for a script
\* with a manifest answers busy, a busy answer starts and queues nothing, and
\* an install task is started only while none is in flight.
C13_InstallSingleFlight ==
    [][/\ isRunning(install_thread.pc) =>
             \A s \in Scripts : fsReq[s] => install_dependencies(s) = "busy"
       /\ act'.install = "busy" => UNCHANGED <<install_thread, installTasks>>
       /\ (installTasks' # installTasks) =>
             (act'.install = "started" /\ ~isRunning(install_thread.pc))]_vars

\* An install for one script was asked for and refused while the install task
\* of another one was running.
C13_Witness ==
    /\ act.op = "answer_yes" /\ act.install = "busy"
    /\ install_thread.pc = "run"
    /\ install_thread.script # act.script

\* C14: once the install task of a script has succeeded and its event was
\* handled, the next dependency check of that script reads a snapshot that
\* contains what the install put into the script's environment.
C14_SnapshotAfterInstall ==
    (/\ act.op = "run_request" /\ act.check # "none" /\ fsReq[act.script]
     /\ install_thread.script = act.script /\ install_thread.pc = "done"
     /\ \A k \in DOMAIN queue : queue[k].sig # "install_finished"
     /\ Manifest(act.script) \subseteq venv_packages[act.script])
        => Manifest(act.script) \subseteq installed_packages_cache.pkgs

\* C15: the snapshot a dependency check of a script has read is the snapshot
\* of that script's own environment.
C15_SnapshotOfOwnEnvironment ==
    (act.op = "run_request" /\ act.check # "none" /\ fsReq[act.script])
        => installed_packages_cache.pkgs = venv_packages[act.script]

\* What the claims C16 and C17 call a specifier line that is met: the package
\* it names, in any letter case, is in the snapshot with a version that every
\* clause of its constraint admits.
SamePackage(written, key) ==
    written = key \/ (written = "Flask" /\ key = "flask")
Admitted(spec) ==
    {v \in Versions : \A k \in DOMAIN spec :
        \/ spec[k].op = ">=" /\ v >= spec[k].ver
        \/ spec[k].op = "<" /\ v < spec[k].ver
        \/ spec[k].op = "==" /\ v = spec[k].ver}
Met(l) ==
    \E n \in DOMAIN installed : SamePackage(l.name, n) /\ installed[n] \in Admitted(l.spec)
SpecifierLines == {k \in DOMAIN requirements : requirements[k].kind = "req"}

IsUnmet(l) == l.kind = "req" /\ ~Met(l)
Unmet == SelectSeq(requirements, IsUnmet)

\* C17: when check_dependencies returns false, the missing list has one entry
\* per unmet specifier line and no other, and every entry carries the required
\* constraint and the installed value: the installed version, or that the
\* package is not installed.
C17_MissingListExact ==
    result = "False" =>
        /\ Len(missing) = Len(Unmet)
        /\ \A k \in DOMAIN missing :
              /\ SamePackage(Unmet[k].name, name_lower(missing[k].name))
              /\ missing[k].required = Unmet[k].spec
              /\ IF name_lower(Unmet[k].name) \in DOMAIN installed
                 THEN /\ missing[k].detail = "version"
                      /\ missing[k].installed = installed[name_lower(Unmet[k].name)]
                 ELSE missing[k].detail = "not_installed"

\* C18: while a session is running, a run_script call is rejected.
C18_RunningSessionRejectsRun ==
    (\E i \in Sessions : sess[i].pc \in {"start", "loop"}) => run_script = "busy"

\* C18, the calls the guard of run_script catches: a call made while the
\* executor's worker_thread is running is rejected with the notice and nothing
\* else: the sessions, the session handle and the queued signals are as
\* before, and no started event is emitted.
C18_RejectedRunChangesNothing ==
    [][(act'.op = "run_script"
          /\ worker_thread # 0 /\ isRunning(sess[worker_thread].pc)) =>
            /\ act'.launch = "busy"
            /\ act'.info = <<"already_running">>
            /\ ~act'.started
            /\ UNCHANGED <<sess, worker_thread, execFin, queue,
                           running_script_name, running_buttons>>]_vars

\* A run_script call was rejected while the child process of the running
\* session was alive.
C18_Witness ==
    /\ act.op = "run_script" /\ act.launch = "busy"
    /\ worker_thread # 0
    /\ sess[worker_thread].pc = "loop" /\ sess[worker_thread].process = "alive"
    /\ sess[worker_thread].is_running

\* C19: stop_script called while no worker thread is running changes no
\* executor state, touches no process, emits no error event and emits the one
\* informational notice.
C19_IdleStopChangesNothing ==
    [][(act'.op = "stop_script"
          /\ ~(worker_thread # 0 /\ isRunning(sess[worker_thread].pc))) =>
            /\ act'.info = <<"nothing_to_stop">>
            /\ act'.err = <<>>
            /\ UNCHANGED <<sess, worker_thread, execFin, queue,
                           running_script_name, running_buttons>>]_vars

\* stop_script was called with no session handle at all.
C19_Witness ==
    /\ act.op = "stop_script" /\ act.info = <<"nothing_to_stop">>
    /\ worker_thread = 0

\* C20: a session that was asked to stop and has emitted its finished event
\* has no child process alive.
C20_StoppedChildNotAlive ==
    \A i \in Sessions :
        (~sess[i].is_running /\ sess[i].pc \in {"emitted", "done"})
            => sess[i].process # "alive"

\* C21: when the run() of a stopped session returns and the child process had
\* written to stderr, that text is emitted on error_signal before finished.
C21_StoppedStderrEmitted ==
    (/\ act.op = "worker_return" /\ act.stderr
     /\ ~sess[act.id].is_running /\ sess[act.id].process = "exited")
        => act.err # <<>>

\* C22: a stop request never blocks the foreground thread: a signal waiting in
\* the queue can be delivered at any time, also while a process that outlives
\* terminate is being stopped.
C22_StopNeverBlocksForeground ==
    queue # <<>> =>
        ENABLED (\/ DeliverWorkerLine \/ DeliverWorkerFinished
                 \/ DeliverVenvFinished \/ DeliverInstallFinished)

\* The queued signals of session i, in the order of their delivery.
QueuedOf(i) == SelectSeq(queue, LAMBDA e : e.id = i /\ e.sig \in
                   {"worker_output", "worker_error", "worker_finished"})

\* C23: the started event of a session is delivered in the step that starts
\* it, when none of its lines can have been emitted; every output and
\* diagnostic line of a session is queued ahead of its finished event and is
\* delivered while no finished event of the session has been delivered, also
\* for a worker that finishes immediately.
C23_StartedLinesFinished ==
    [][/\ \A i \in Sessions :
            /\ (sess[i].pc = "none" /\ sess'[i].pc # "none")
                  => (act'.started /\ QueuedOf(i)' = <<>> /\ execFin'[i] = 0)
            /\ \A k \in 1..Len(QueuedOf(i)') :
                  QueuedOf(i)'[k].sig = "worker_finished" => k = Len(QueuedOf(i)')
       /\ (/\ queue # <<>> /\ queue' = Tail(queue)
           /\ Head(queue).sig \in {"worker_output", "worker_error"})
              => execFin[Head(queue).id] = 0]_vars

\* A session whose script file was missing has had its diagnostic line and
\* then its finished event delivered.
C23_Witness ==
    \E i \in Sessions :
        /\ sess[i].pc \in {"emitted", "done"} /\ sess[i].process = "none"
        /\ sess[i].is_running
        /\ QueuedOf(i) = <<>> /\ execFin[i] = 1

\* The signals a dependency thread's step emitted end with the one
\* finished_signal or hold none, and a thread that has emitted it takes no
\* further emitting step.
FinishedLast(thread, op) ==
    /\ (act.op = op /\ thread.pc # "emitted") => "finished" \notin
            {act.emits[k] : k \in 1..Len(act.emits)}
    /\ (act.op = op /\ thread.pc = "emitted") =>
            /\ act.emits # <<>>
            /\ \A k \in 1..Len(act.emits) :
                   act.emits[k] = "finished" <=> k = Len(act.emits)

\* C24: a creation task and an install task that was started eventually
\* emits finished_signal, exactly once, as the last of its signals, whichever
\* step fails.
C24_TaskEmitsOneFinished ==
    /\ [](/\ venv_thread.fin = (IF venv_thread.pc \in {"emitted", "done"} THEN 1 ELSE 0)
          /\ install_thread.fin =
                 (IF install_thread.pc \in {"emitted", "done"} THEN 1 ELSE 0)
          /\ FinishedLast(venv_thread, "venv_run")
          /\ FinishedLast(install_thread, "install_run"))
    /\ (venv_thread.pc \in {"tool", "create", "pip"}) ~> (venv_thread.fin = 1)
    /\ (install_thread.pc = "run") ~> (install_thread.fin = 1)

\* An install task that relayed lines has failed and emitted finished_signal,
\* after a creation task that succeeded.
C24_Witness ==
    /\ install_thread.pc = "emitted" /\ install_thread.fin = 1
    /\ install_thread.progress > 0
    /\ act.op = "install_run" /\ ~act.ok
    /\ venv_thread.fin = 1 /\ venvLast[install_thread.script] = "ok"

\* The percentages of a step that reports on behalf of the install task.
Reported == {act.progress[k] : k \in 1..Len(act.progress)}

\* C29: the percentages reported for one install task never decrease, stay
\* below 100 until the task completes, and 100 is reported when it completes.
C29_ProgressMonotoneTo100 ==
    [][/\ act'.op \in {"install_run", "install_finished"}
            => \A v \in Reported' : v >= install_thread.progress
       /\ (act'.op = "install_run" /\ install_thread'.pc = "run")
            => \A v \in Reported' : v < 100
       /\ (act'.op = "install_run" /\ install_thread'.pc = "emitted")
            => act'.progress = <<100>>]_vars

\* C29 (amended): the percentages the install thread reports never decrease
\* and stay below 100 while pip runs; the step that completes the task
\* reports 100 when the task succeeds and nothing when it fails; handling
\* the finished event reports 0.
C29_MonotoneThen100OnSuccess ==
    [][/\ act'.op = "install_run"
            => \A v \in Reported' : v >= install_thread.progress
       /\ (act'.op = "install_run" /\ install_thread'.pc = "run")
            => \A v \in Reported' : v < 100
       /\ (act'.op = "install_run" /\ install_thread'.pc = "emitted")
            => act'.progress = (IF act'.ok THEN <<100>> ELSE <<>>)
       /\ act'.op = "install_finished" => act'.progress = <<0>>]_vars

\* A task whose progress had reached the cap of 95 completes with success
\* and reports 100.
C29_Witness ==
    /\ act.op = "install_run" /\ act.ok /\ act.progress = <<100>>
    /\ install_thread.pc = "emitted" /\ install_thread.progress = 95

\* C25: once a session whose process exited on its own has emitted finished,
\* every line the process wrote to stdout was relayed: none is left unread.
C25_EveryLineRelayed ==
    \A i \in Sessions :
        (/\ sess[i].pc \in {"emitted", "done"} /\ sess[i].is_running
         /\ sess[i].process = "exited")
            => sess[i].pipe = 0

\* C26: a worker that finds no script file when it starts emits one failure
\* event followed by its finished event and launches no child process; the
\* handling of that finished event leaves the executor without a running
\* session.
C26_MissingFileEndsSession ==
    [][/\ \A i \in Sessions :
            (sess[i].pc = "start" /\ ~fsScript[sess[i].script] /\ sess'[i] # sess[i])
               => /\ sess'[i].process = "none"
                  /\ sess'[i].pc = "emitted" /\ sess'[i].fin = 1
                  /\ queue' = queue \o
                        <<Ev("worker_error", i, sess[i].script, FALSE),
                          Ev("worker_finished", i, sess[i].script, TRUE)>>
       /\ (/\ queue # <<>> /\ queue' = Tail(queue)
           /\ Head(queue).sig = "worker_finished")
              => (worker_thread' = 0 /\ ~running_buttons' /\ run_script' = "started")
       /\ \A i \in Sessions : sess[i].process = "none" => sess'[i].process \in
              (IF sess[i].pc = "start" /\ fsScript[sess[i].script]
               THEN {"none", "alive"} ELSE {"none"})]_vars

\* The worker of a script that was deleted after its run was requested has
\* returned without a process, its failure and finished events were
\* delivered, and the executor is idle.
C26_Witness ==
    \E i \in Sessions :
        /\ sess[i].script # NoScript /\ ~fsScript[sess[i].script]
        /\ sess[i].pc = "done" /\ sess[i].process = "none"
        /\ execFin[i] = 1 /\ QueuedOf(i) = <<>>
        /\ worker_thread = 0

\* C27: the handling of an install task's failure event retries nothing: no
\* dependency check, no launch, no install and no question follow, the
\* sessions and both dependency threads are as before, and the failure is
\* the event that was handled.
C27_FailedInstallAborts ==
    [][(act'.op = "install_finished" /\ ~act'.ok) =>
          /\ Head(queue).sig = "install_finished" /\ ~Head(queue).ok
          /\ act'.retry = "none" /\ act'.check = "none"
          /\ act'.install = "none" /\ act'.launch = "none" /\ ~act'.asked
          /\ UNCHANGED <<sess, worker_thread, install_thread, installTasks,
                         venv_thread, venvStarts, prompt, running_buttons,
                         running_script_name>>]_vars

\* The failure event of the selected script's install task was handled; no
\* question is open and nothing runs, so the run button takes a new request.
C27_Witness ==
    /\ act.op = "install_finished" /\ ~act.ok
    /\ act.script = current_script_name
    /\ install_thread.script = current_script_name /\ install_thread.fin = 1
    /\ prompt = NoScript /\ ~running_buttons /\ worker_thread = 0

\* C28: install_dependencies for a script without requirements.txt reports
\* success inside the call (progress 0, and the slot of
\* dependencies_installed_signal clears the snapshot), starts no install task
\* and queues nothing, and leaves the files, the environments and both
\* dependency threads as they were.
C28_NoManifestInstallIsNoOp ==
    [][(/\ \/ act'.op = "answer_yes"
           \/ act'.op = "venv_finished" /\ act'.ok
        /\ ~fsReq[act'.script]) =>
          /\ act'.install = "nomanifest"
          /\ 0 \in Reported'
          /\ installed_packages_cache' = NoCache
          /\ queue' = Tail(queue) \/ queue' = queue
          /\ UNCHANGED <<fsVars, install_thread, installTasks, venv_thread, sess>>]_vars

\* install_dependencies was called for a script without requirements.txt
\* while the install task of another script was running.
C28_Witness ==
    /\ act.install = "nomanifest"
    /\ install_thread.pc = "run" /\ install_thread.script # act.script

\* C30: stop_script called while a creation task or an install task is in
\* flight leaves both dependency threads, their flags, their queued events
\* and the files as they were; with no script running it is answered with
\* the notice that nothing is running, and it acts on a session only when
\* one is running.
C30_StopLeavesDependencyTasks ==
    [][/\ (act'.op = "stop_script"
            /\ (isRunning(venv_thread.pc) \/ isRunning(install_thread.pc))) =>
              /\ UNCHANGED <<venv_thread, install_thread, fsVars, queue,
                             installTasks, venvStarts, venvFails, venvLast>>
              /\ (sess' # sess \/ act'.info = <<"stopping">>)
                    => (worker_thread # 0 /\ isRunning(sess[worker_thread].pc))
              /\ (worker_thread = 0) => act'.info = <<"nothing_to_stop">>
       /\ venv_thread'.is_running /\ install_thread'.is_running]_vars

\* stop_script was called while an install task that had relayed lines was
\* running and no script was: the task runs on.
C30_Witness ==
    /\ act.op = "stop_script" /\ act.info = <<"nothing_to_stop">>
    /\ install_thread.pc = "run" /\ install_thread.progress > 0
    /\ install_thread.is_running
    /\ worker_thread = 0

\* C31: once the deletion of a script was handled, no live session and no
\* queued completion is still attributed to it, and it is not the running
\* script.
C31_DeletedScriptHasNoWork ==
    \A s \in Scripts : ~fsScript[s] =>
        /\ running_script_name # s
        /\ \A i \in Sessions :
              sess[i].script = s => (~SessionLive(i) /\ QueuedOf(i) = <<>>)

\* C32: after a rename of old to new nothing the Controller holds is keyed
\* by old any more: neither the selection nor the running-script name.
C32_RenamedStateRekeyed ==
    act.op = "rename" =>
        (current_script_name # act.script /\ running_script_name # act.script)

\* C33: the delivery of a failed creation or install task's finished event
\* writes exactly one failure line to the caller's log.
C33_OneDiagnosticPerFailure ==
    (act.op \in {"venv_finished", "install_finished"} /\ ~act.ok) =>
        Len(act.diag) = 1

\* C34: a run request for a script without requirements.txt leads to its
\* launch, unless the provisioning it started failed.
C34_NoManifestRunLaunches ==
    \A s \in Scripts :
        (act.op = "run_request" /\ act.script = s /\ fsScript[s] /\ ~fsReq[s])
            ~> (running_script_name = s \/ venvLast[s] \in {"tool", "create", "pip"})

\* The dependency work of a run request is over: no creation or install task
\* is at work and none of their events waits for delivery.
TasksIdle ==
    /\ venv_thread.pc \notin {"tool", "create", "pip"}
    /\ install_thread.pc # "run"
    /\ queue = <<>>

\* The behaviours followed end where a provisioning event would start one
\* install task more than MaxInstallTasks.
InstallTasksExhausted ==
    /\ installTasks = MaxInstallTasks
    /\ queue # <<>>
    /\ Head(queue).sig = "venv_finished" /\ Head(queue).ok
    /\ install_dependencies(basename(Head(queue).dir)) = "started"

TopLevelExternal(text) ==
    UNION {IF ~text[k].indent /\ text[k].stmt.kind \in {"import", "from"}
           THEN {m.path[1] : m \in {text[k].stmt.mods[j] :
                                       j \in DOMAIN text[k].stmt.mods}}
                    \ (stdlib \cup {""})
           ELSE {} : k \in DOMAIN text}

\* C36: analyze_imports returns the sorted external root modules of the
\* top-level import and from-import statements, and None when there are none.
C36_AnalyzeImportsExact ==
    imports # NotAnalyzed =>
        imports = IF TopLevelExternal(content) = {} THEN [ret |-> "None", names |-> <<>>]
                  ELSE [ret |-> "list",
                        names |-> SelectSeq(ModuleOrder,
                                     LAMBDA m : m \in TopLevelExternal(content))]

\* C37: a snapshot that is there is returned as it is, whatever is installed
\* by now; it is built, from what is installed then, only when there is none;
\* a dependency check that reads it leaves one; the end of an install
\* clears it.
C37_SnapshotBuiltOncePerInvalidation ==
    [][/\ (installed_packages_cache.valid /\ installed_packages_cache'.valid)
            => installed_packages_cache' = installed_packages_cache
       /\ (~installed_packages_cache.valid /\ installed_packages_cache'.valid)
            => installed_packages_cache'.pkgs = host_packages
       /\ (act'.check # "none" /\ fsReq[act'.script])
            => installed_packages_cache'.valid
       /\ act'.op = "install_finished" => ~installed_packages_cache'.valid]_vars

\* A dependency check was answered from a snapshot that a new reading of the
\* installed packages would not give.
C37_Witness ==
    /\ act.op = "run_request" /\ act.check # "none" /\ fsReq[act.script]
    /\ installed_packages_cache.valid
    /\ installed_packages_cache.pkgs # host_packages
    /\ installTasks = 1

\* C38: a creation task emits the success event only from its installer
\* check, which it reaches only from a successful environment creation, which
\* it reaches only from a tool that was found or installed; a step that fails
\* emits the failure event and is the task's last.
C38_ProvisionedAfterAllSteps ==
    [][/\ (act'.op = "venv_run" /\ act'.ok /\ venv_thread'.fin # venv_thread.fin)
            => (venv_thread.pc = "pip" /\ fsExe[venv_thread.script])
       /\ (venv_thread'.pc = "pip" /\ venv_thread.pc # "pip")
            => (venv_thread.pc = "create" /\ act'.ok /\ fsExe'[venv_thread.script])
       /\ (venv_thread'.pc = "create" /\ venv_thread.pc # "create")
            => (venv_thread.pc = "tool" /\ act'.ok)
       /\ (act'.op = "venv_run" /\ ~act'.ok)
            => (venv_thread'.pc = "emitted" /\ venv_thread'.fin = venv_thread.fin + 1
                /\ queue'[Len(queue')] = Ev("venv_finished", 0,
                                          get_script_dir(venv_thread.script), FALSE))
       /\ venv_thread.pc \in {"emitted", "done"} => act'.op # "venv_run"]_vars

\* A creation task went through all three steps and emitted the success
\* event.
C38_Witness ==
    /\ act.op = "venv_run" /\ act.ok
    /\ venv_thread.pc = "emitted" /\ venv_thread.fin = 1
    /\ venvLast[venv_thread.script] = "ok"
    /\ fsExe[venv_thread.script]

\* C39: a line a session emitted is appended to the log of the session's
\* script.
C39_LineLoggedForItsScript ==
    act.op = "worker_line" => act.log = act.script

\* No finished event of a session waits for delivery.
FinishedHandled == \A k \in DOMAIN queue : queue[k].sig # "worker_finished"

\* The worker thread of session i has not emitted finished yet.
ThreadRunning(i) == sess[i].pc \in {"start", "loop"}

\* C40: with every finished event handled, running_script_name is set
\* exactly when the executor holds a session that has not finished, it is
\* then the script of that session, and no other session is unfinished.
C40_RunningNameTracksSession ==
    FinishedHandled =>
        /\ running_script_name # NoScript
              <=> (worker_thread # 0 /\ ThreadRunning(worker_thread))
        /\ worker_thread # 0 => running_script_name = sess[worker_thread].script
        /\ \A i \in Sessions : ThreadRunning(i) => i = worker_thread

\* The finished event of one session was handled and the name cleared, and
\* the name is set again for a second session that is running.
C40_Witness ==
    /\ FinishedHandled
    /\ \E i, j \in Sessions :
          /\ i # j
          /\ execFin[i] = 1 /\ sess[i].pc = "done"
          /\ worker_thread = j /\ sess[j].pc = "loop"
          /\ running_script_name = sess[j].script

====
